---- MODULE Spec2Model ----
(***************************************************************************)
(* bevy_sentry: the SentryIntegration builder, its build step, the         *)
(* per-type context sync system set_sentry_context, and the host           *)
(* application's container (resources, systems) they act on.               *)
(*                                                                         *)
(* An optional value (Option<T>, a resource that may be absent) is a set   *)
(* with at most one element: {} is None, {x} is Some(x).                   *)
(***************************************************************************)
EXTENDS Naturals, Sequences, FiniteSets, TLC

\* ------------------------------------------------------------- bounds
\* Most sync systems one app holds (build is given no more registrations).
MaxSystems == 2
\* Most init calls (client starts) in one process.
MaxInits == 2

\* ------------------------------------------------------------- values
\* Marker types T of SentryContext<T>.
Types == {"T1", "T2"}
\* Context keys (SentryContext::key).
Keys == {"Character", "Level"}
\* Context mappings (BTreeMap<String, Value>); the first is the example's.
Mappings == {[name |-> "Nikl", age |-> "38"], [name |-> "Bob"]}
\* Client options carried by SentryConfig (opaque to the shim).
Options == {"dsn"}

VARIABLES
    config,       \* the SentryConfig resource: {} or {options}
    sentry,       \* the Sentry resource: {} or {guard}, a guard is its init's number
    contexts,     \* contexts[T]: the SentryContext<T> resource, {} or {[key, context]}
    systems,      \* the app's sync systems: systems[T] counts the set_sentry_context::<T>
                  \* systems, by whether the resource changed since the system last ran
    scope,        \* the SDK's global scope: key -> mapping
    inits,        \* number of init(options) calls
    dropped,      \* dropped[g]: how often guard g was dropped (cleanup run)
    diagnostics,  \* number of error! messages the last operation emitted
    running,      \* the app (and its container) is alive
    writer,       \* writer[key]: whose context was last set under key, and whether
                  \* as a build's initial context
    last,         \* what produced this state: "start", "host", "build", "cycle", "teardown"
    wrote         \* the set_context calls of that operation: of a build [n, type, key,
                  \* context], n the initial context's position; of a cycle [type, key,
                  \* context, writes], writes the number of systems of the type that wrote

vars == <<config, sentry, contexts, systems, scope, inits, dropped,
          diagnostics, running, writer, last, wrote>>

The(opt) == CHOOSE x \in opt : TRUE

\* SentryContext::new(key, context)
SentryContext(key, context) == [key |-> key, context |-> context]

EmptyScope == [k \in {} |-> k]

\* Variant of set_context that merges the new mapping into the entry already there.
set_context_merge(s, key, context) ==
    [k \in (DOMAIN s) \cup {key} |->
        IF k # key THEN s[k]
        ELSE IF key \in DOMAIN s
             THEN [f \in (DOMAIN s[key]) \cup (DOMAIN context) |->
                      IF f \in DOMAIN context THEN context[f] ELSE s[key][f]]
             ELSE context]

\* scope.set_context(key, Context::Other(context)): replaces the entry under key.
set_context(s, key, context) ==
    [k \in (DOMAIN s) \cup {key} |-> IF k = key THEN context ELSE s[k]]

\* Variant of remove_resource that reads the resource and leaves it in place.
get_resource(slot) == slot

\* world.remove_resource::<R>(): the slot of R afterwards.
remove_resource(slot) == {}

\* Variant of is_changed without change detection.
is_changed_always(sys) == TRUE

\* Res<SentryContext<T>>::is_changed() for the system sys: the resource was
\* inserted or replaced since sys last ran (a system that never ran sees
\* every resource as changed).
is_changed(sys) == sys.changed

\* set_sentry_context::<T>(Option<Res<SentryContext<T>>>): whether it writes.
writes_scope(sys) == contexts[sys.type] # {} /\ is_changed(sys)

\* Variant of set_sentry_context that replaces the scope's contexts by the one set.
set_sentry_context_clobber(s, sys) ==
    IF writes_scope(sys)
    THEN set_context(EmptyScope, The(contexts[sys.type]).key, The(contexts[sys.type]).context)
    ELSE s

\* set_sentry_context::<T>: the scope after the system ran on scope s.
set_sentry_context(s, sys) ==
    IF writes_scope(sys)
    THEN set_context(s, The(contexts[sys.type]).key, The(contexts[sys.type]).context)
    ELSE s

\* Variant of push_initial that sets the first initial context only.
push_initial_first(s, cs) ==
    IF cs = <<>> THEN s ELSE set_context(s, Head(cs).key, Head(cs).context)

\* build's closure over self.initial_contexts, in registration order.
RECURSIVE push_initial(_, _)
push_initial(s, cs) ==
    IF cs = <<>> THEN s
    ELSE push_initial(set_context(s, Head(cs).key, Head(cs).context), Tail(cs))

\* The systems of type t as single systems: one that has a change to see, one
\* that has none, each when the app holds such a system.
systems_of(t) ==
    (IF systems[t].changed > 0 THEN <<[type |-> t, changed |-> TRUE]>> ELSE <<>>)
        \o (IF systems[t].seen > 0 THEN <<[type |-> t, changed |-> FALSE]>> ELSE <<>>)

\* The scope after the systems syss ran on scope s.
RECURSIVE run_each(_, _)
run_each(s, syss) ==
    IF syss = <<>> THEN s
    ELSE run_each(set_sentry_context(s, Head(syss)), Tail(syss))

\* One cycle of the schedule: the sync systems run, type by type in the order
\* given (the systems of one type set the same context).
RECURSIVE run_systems(_, _)
run_systems(s, order) ==
    IF order = <<>> THEN s
    ELSE run_systems(run_each(s, systems_of(Head(order))), Tail(order))

\* How many systems of type t write the scope in a cycle.
writes_of(t) ==
    (IF writes_scope([type |-> t, changed |-> TRUE]) THEN systems[t].changed ELSE 0)
        + (IF writes_scope([type |-> t, changed |-> FALSE]) THEN systems[t].seen ELSE 0)

\* The set_context calls of a cycle run in the order given.
RECURSIVE cycle_writes(_)
cycle_writes(order) ==
    IF order = <<>> THEN <<>>
    ELSE LET t == Head(order)
         IN (IF writes_of(t) > 0
             THEN <<[type |-> t, writes |-> writes_of(t)] @@ The(contexts[t])>>
             ELSE <<>>) \o cycle_writes(Tail(order))

\* Whose context each key holds after the set_context calls ws.
RECURSIVE last_writers(_, _, _)
last_writers(w, ws, initial) ==
    IF ws = <<>> THEN w
    ELSE last_writers(set_context(w, Head(ws).key,
                                  [type |-> Head(ws).type, initial |-> initial]),
                      Tail(ws), initial)

Range(seq) == {seq[i] : i \in DOMAIN seq}

\* The orders in which the executor may run the systems of one set.
Orders ==
    {o \in [1..Cardinality(Types) -> Types] :
        \A i, j \in 1..Cardinality(Types) : i # j => o[i] # o[j]}

\* Number of sync systems the app holds.
RECURSIVE count_systems(_)
count_systems(ts) ==
    IF ts = {} THEN 0
    ELSE LET t == CHOOSE x \in ts : TRUE
         IN systems[t].changed + systems[t].seen + count_systems(ts \ {t})

\* Variant of drop_sentry that forgets the resource without running its cleanup.
leak_sentry(d, s) == d

\* Dropping the Sentry resource held in slot s runs its guard's cleanup.
drop_sentry(d, s) == [g \in DOMAIN d |-> IF g \in s THEN d[g] + 1 ELSE d[g]]

Init ==
    /\ config = {}
    /\ sentry = {}
    /\ contexts = [t \in Types |-> {}]
    /\ systems = [t \in Types |-> [changed |-> 0, seen |-> 0]]
    /\ scope = EmptyScope
    /\ inits = 0
    /\ dropped = <<>>
    /\ diagnostics = 0
    /\ running = TRUE
    /\ writer = EmptyScope
    /\ last = "start"
    /\ wrote = {}

\* app.insert_resource(SentryConfig::from_options(options))
InsertConfig ==
    /\ running
    /\ \E o \in Options : config' = {o}
    /\ last' = "host"
    /\ diagnostics' = 0
    /\ wrote' = {}
    /\ UNCHANGED <<sentry, contexts, systems, scope, inits, dropped, running, writer>>

\* SentryIntegration::new()
new == [systems |-> <<>>, initial_contexts |-> <<>>]

\* self.register_context::<T>(initial_value)
register_context(self, t, initial_value) ==
    [systems |-> Append(self.systems, t),
     initial_contexts |->
        IF initial_value # {}
        THEN Append(self.initial_contexts,
                    [n |-> Len(self.initial_contexts) + 1, type |-> t]
                        @@ The(initial_value))
        ELSE self.initial_contexts]

\* What the host may pass as initial_value: None or Some(SentryContext::new(k, m)).
InitialValues == {{}} \cup {{SentryContext(k, m)} : k \in Keys, m \in Mappings}

\* The integrations the host can hand to build: new() followed by at most n
\* register_context calls.
RECURSIVE Integrations(_)
Integrations(n) ==
    IF n = 0 THEN {new}
    ELSE LET prev == Integrations(n - 1)
         IN prev \cup {register_context(self, t, iv) :
                          self \in prev, t \in Types, iv \in InitialValues}

\* Variant of added_systems whose systems count as having seen every resource.
added_systems_seen(self) ==
    [t \in Types |->
        [changed |-> systems[t].changed,
         seen |-> systems[t].seen
                    + Cardinality({i \in 1..Len(self.systems) : self.systems[i] = t})]]

\* app.add_system_set(self.systems): the app's systems with those of self
\* added; none of the added has run yet.
added_systems(self) ==
    [t \in Types |->
        [changed |-> systems[t].changed
                       + Cardinality({i \in 1..Len(self.systems) : self.systems[i] = t}),
         seen |-> systems[t].seen]]

\* Variant of build_contexts that also inserts each initial context as a resource.
RECURSIVE install_contexts(_, _)
install_contexts(c, cs) ==
    IF cs = <<>> THEN c
    ELSE install_contexts(
            [c EXCEPT ![Head(cs).type] = {SentryContext(Head(cs).key, Head(cs).context)}],
            Tail(cs))

build_contexts_installed(self) == install_contexts(contexts, self.initial_contexts)

\* The SentryContext resources after build: build moves the initial contexts
\* into the scope closure and inserts none of them as a resource.
build_contexts(self) == contexts

\* build, a SentryConfig is present: remove it, init, insert Sentry (dropping a
\* Sentry already there), push the initial contexts, add the systems.
build_configured(self) ==
    /\ config' = remove_resource(config)
    /\ inits' = inits + 1
    /\ sentry' = {inits + 1}
    /\ dropped' = Append(drop_sentry(dropped, sentry), 0)
    /\ scope' = push_initial(scope, self.initial_contexts)
    /\ writer' = last_writers(writer, self.initial_contexts, TRUE)
    /\ wrote' = Range(self.initial_contexts)
    /\ systems' = added_systems(self)
    /\ contexts' = build_contexts(self)
    /\ diagnostics' = 0

\* Variant of build_unconfigured that adds the systems although no client runs.
build_unconfigured_adds_systems(self) ==
    /\ diagnostics' = 1
    /\ wrote' = {}
    /\ systems' = added_systems(self)
    /\ UNCHANGED <<config, inits, sentry, dropped, scope, writer, contexts>>

\* Variant of build_unconfigured that starts a client from default options.
build_unconfigured_inits(self) ==
    /\ diagnostics' = 1
    /\ wrote' = {}
    /\ inits' = inits + 1
    /\ sentry' = {inits + 1}
    /\ dropped' = Append(drop_sentry(dropped, sentry), 0)
    /\ UNCHANGED <<config, scope, writer, systems, contexts>>

\* build, no SentryConfig: one error! message, nothing else.
build_unconfigured(self) ==
    /\ diagnostics' = 1
    /\ wrote' = {}
    /\ UNCHANGED <<config, inits, sentry, dropped, scope, writer, systems, contexts>>

\* self.build(app)
Build ==
    /\ running
    /\ config # {} => inits < MaxInits
    /\ \E self \in Integrations(MaxSystems - count_systems(Types)) :
         IF config # {}
         THEN build_configured(self)
         ELSE build_unconfigured(self)
    /\ last' = "build"
    /\ UNCHANGED running

\* The host inserts or replaces the SentryContext<T> resource.
InsertContext ==
    /\ running
    /\ \E t \in Types, k \in Keys, m \in Mappings :
         /\ contexts' = [contexts EXCEPT ![t] = {SentryContext(k, m)}]
         /\ systems' = [systems EXCEPT ![t] =
                          [changed |-> systems[t].changed + systems[t].seen, seen |-> 0]]
    /\ last' = "host"
    /\ diagnostics' = 0
    /\ wrote' = {}
    /\ UNCHANGED <<config, sentry, scope, inits, dropped, running, writer>>

\* The host removes the SentryContext<T> resource.
RemoveContext ==
    /\ running
    /\ \E t \in Types :
         /\ contexts[t] # {}
         /\ contexts' = [contexts EXCEPT ![t] = {}]
    /\ last' = "host"
    /\ diagnostics' = 0
    /\ wrote' = {}
    /\ UNCHANGED <<config, sentry, systems, scope, inits, dropped, running, writer>>

\* One scheduling cycle: every sync system of the app runs once.
RunCycle ==
    /\ running
    /\ \E order \in Orders :
         /\ scope' = run_systems(scope, order)
         /\ writer' = last_writers(writer, cycle_writes(order), FALSE)
         /\ wrote' = Range(cycle_writes(order))
    /\ systems' = [t \in Types |->
                      [changed |-> 0, seen |-> systems[t].changed + systems[t].seen]]
    /\ last' = "cycle"
    /\ diagnostics' = 0
    /\ UNCHANGED <<config, sentry, contexts, inits, dropped, running>>

\* The app is dropped: the container drops every resource it holds.
Teardown ==
    /\ running
    /\ running' = FALSE
    /\ config' = {}
    /\ sentry' = {}
    /\ dropped' = drop_sentry(dropped, sentry)
    /\ contexts' = [t \in Types |-> {}]
    /\ systems' = [t \in Types |-> [changed |-> 0, seen |-> 0]]
    /\ last' = "teardown"
    /\ diagnostics' = 0
    /\ wrote' = {}
    /\ UNCHANGED <<scope, inits, writer>>

Next ==
    \/ InsertConfig
    \/ Build
    \/ InsertContext
    \/ RemoveContext
    \/ RunCycle
    \/ Teardown

Spec == Init /\ [][Next]_vars

\* ------------------------------------------------------------- claims
\* The scope's entry under key k, as an optional value.
Entry(s, k) == IF k \in DOMAIN s THEN {s[k]} ELSE {}
\* Key and mapping of the SentryContext<t> resource (when it exists).
Key(t) == The(contexts[t]).key
Context(t) == The(contexts[t]).context
\* A sync system for t was added to the app.
HasSystem(t) == systems[t].changed + systems[t].seen > 0
\* A system of t finds its resource and finds it changed since it last ran.
Pending(t) == systems[t].changed > 0 /\ contexts[t] # {}
\* No system is about to set a different mapping under the key of t's resource.
NoRival(t) ==
    \A u \in Types : (Pending(u) /\ Key(u) = Key(t)) => Context(u) = Context(t)

\* C1: a build that finds a SentryConfig leaves the SentryConfig resource absent
\* and a Sentry resource present.
C1_ConfigConsumed ==
    [][(last' = "build" /\ config # {}) => (config' = {} /\ sentry' = {inits'})]_vars

C1_Witness ==
    last = "build" /\ diagnostics = 0 /\ inits = 1 /\ config = {} /\ sentry = {1}

\* C2: a build that finds no SentryConfig emits exactly one diagnostic message
\* and changes nothing else: no Sentry resource, no init, no scope write, no
\* system added, the app keeps running.
C2_NoConfigNoOp ==
    [][(last' = "build" /\ config = {}) =>
          /\ diagnostics' = 1
          /\ wrote' = {}
          /\ UNCHANGED <<config, sentry, inits, dropped, scope, writer, systems,
                         contexts, running>>]_vars

C2_Witness ==
    last = "build" /\ diagnostics = 1 /\ inits = 0 /\ sentry = {} /\ running
        /\ \A t \in Types : ~HasSystem(t)

\* C3 as stated: after a build that finds a SentryConfig the scope holds, under
\* the key of every registered initial context, exactly that context's mapping.
C3_Original ==
    last = "build" =>
        \A w \in wrote : w.key \in DOMAIN scope /\ scope[w.key] = w.context

\* C3 amended: the scope holds an entry under the key of every registered
\* initial context, and it is the mapping of the initial context registered
\* last under that key.
C3_InitialContexts ==
    last = "build" =>
        \A w \in wrote :
            /\ w.key \in DOMAIN scope
            /\ (\A w2 \in wrote : w2.key = w.key => w2.n <= w.n)
                  => scope[w.key] = w.context

C3_Witness ==
    /\ last = "build"
    /\ wrote = {[n |-> 1, type |-> "T1", key |-> "Character",
                 context |-> [name |-> "Nikl", age |-> "38"]]}
    /\ scope = [k \in {"Character"} |-> [name |-> "Nikl", age |-> "38"]]

\* C4 as stated: a cycle sets the scope entry under the key of every resource
\* changed since its system last ran to exactly that resource's mapping.
C4_Original ==
    [][last' = "cycle" =>
          \A t \in Types : Pending(t) => Entry(scope', Key(t)) = {Context(t)}]_vars

\* C4 amended: the same, when no other system sets a different mapping under
\* the same key in that cycle; the entry is replaced, nothing of the old
\* mapping survives.
C4_Overwrite ==
    [][last' = "cycle" =>
          \A t \in Types :
              (Pending(t) /\ NoRival(t)) => Entry(scope', Key(t)) = {Context(t)}]_vars

C4_Witness ==
    /\ last = "cycle"
    /\ \E w \in wrote :
          /\ w.context = [name |-> "Bob"]
          /\ scope[w.key] = [name |-> "Bob"]
          /\ contexts[w.type] = {SentryContext(w.key, [name |-> "Bob"])}

\* C5 as stated: one mutation of the SentryContext<T> resource leads to exactly
\* one scope write for T, however many cycles follow.
C5_Original ==
    last = "cycle" => \A w \in wrote : w.writes <= 1

\* C5 amended: in a cycle, a system writes the scope exactly when its resource
\* exists and changed since the system last ran, and after the cycle no system
\* has a change left to see; so one mutation leads to exactly one write per
\* system registered for T.
C5_ChangeDetection ==
    [][last' = "cycle" =>
          /\ \A w \in wrote' : Pending(w.type) /\ w.writes = systems[w.type].changed
          /\ \A t \in Types : Pending(t) => \E w \in wrote' : w.type = t
          /\ \A t \in Types : systems'[t].changed = 0]_vars

C5_Witness ==
    /\ last = "cycle"
    /\ wrote = {}
    /\ inits >= 1
    /\ \E t \in Types : HasSystem(t) /\ contexts[t] # {} /\ Key(t) \in DOMAIN scope

C7_Original == inits <= 1

\* C7 amended: the client is started only by a build, once per build, and only
\* by consuming the SentryConfig present at the call, which is absent when that
\* build returns; only the host makes a SentryConfig present again.
C7_InitConsumesConfig ==
    [][/\ inits' # inits =>
            (last' = "build" /\ inits' = inits + 1 /\ config # {} /\ config' = {})
       /\ (config = {} /\ config' # {}) => last' = "host"]_vars

C7_Witness ==
    last = "build" /\ diagnostics = 0 /\ inits = 2 /\ config = {} /\ sentry = {2}

\* C8 as stated: no cleanup runs while the app is running, and after teardown
\* every guard's cleanup has run exactly once.
C8_Original ==
    /\ running => \A g \in DOMAIN dropped : dropped[g] = 0
    /\ ~running => \A g \in DOMAIN dropped : dropped[g] = 1

\* C8 amended: every guard's cleanup runs exactly once, when its Sentry
\* resource leaves the container: at teardown, or before it only when a later
\* successful build replaces the resource; while the app runs the guard of the
\* latest init is held and not cleaned up.
C8_CleanupOnce ==
    /\ DOMAIN dropped = 1..inits
    /\ \A g \in DOMAIN dropped : dropped[g] = IF g \in sentry THEN 0 ELSE 1
    /\ (running /\ inits >= 1) => sentry = {inits}
    /\ ~running => sentry = {}

C8_Witness ==
    ~running /\ last = "teardown" /\ inits = 1 /\ dropped = <<1>>

\* C9: at the end of every cycle after a successful build, for every type with
\* a sync system whose resource exists, the scope has an entry under the
\* resource's key, and the entry equals the resource's mapping unless the
\* context of another type was set under that key after it.
C9_Synced ==
    (last = "cycle" /\ inits >= 1) =>
        \A t \in Types :
            (HasSystem(t) /\ contexts[t] # {}) =>
                /\ Key(t) \in DOMAIN scope
                /\ writer[Key(t)].type = t => scope[Key(t)] = Context(t)

C9_Witness ==
    /\ last = "cycle"
    /\ inits = 1
    /\ \E w \in wrote :
          /\ contexts[w.type] = {SentryContext(w.key, w.context)}
          /\ scope[w.key] = w.context
          /\ writer[w.key] = [type |-> w.type, initial |-> FALSE]
          /\ \A t \in Types \ {w.type} : contexts[t] = {}

\* C10 as stated: the scope entry set from T's initial value stays as it is for
\* as long as no SentryContext<T> resource exists.
C10_Original ==
    [][\A k \in DOMAIN scope :
          (/\ writer[k].initial
           /\ contexts[writer[k].type] = {}
           /\ contexts'[writer[k].type] = {})
          => Entry(scope', k) = Entry(scope, k)]_vars

\* C10 amended: build inserts no SentryContext resource; a system whose
\* resource does not exist writes nothing; no entry ever leaves the scope; and
\* while no SentryContext<T> resource exists, the entry set from T's initial
\* value changes only when a context of another type, or a later build's
\* initial context, is set under the same key.
C10_InitialOnlyInScope ==
    [][/\ last' = "build" => contexts' = contexts
       /\ last' = "cycle" => \A w \in wrote' : contexts[w.type] # {}
       /\ DOMAIN scope \subseteq DOMAIN scope'
       /\ \A k \in DOMAIN scope :
             (/\ writer[k].initial
              /\ contexts[writer[k].type] = {}
              /\ contexts'[writer[k].type] = {}
              /\ Entry(scope', k) # Entry(scope, k))
             => (last' = "build" \/ writer'[k].type # writer[k].type)]_vars

C10_Witness ==
    /\ last = "cycle"
    /\ wrote = {}
    /\ \E k \in DOMAIN scope :
          /\ writer[k].initial
          /\ HasSystem(writer[k].type)
          /\ contexts[writer[k].type] = {}
====
